---- MODULE Spec2Model ----
(***************************************************************************)
(* A model of jacinator/learning-pygame: the Game object of src/game.py    *)
(* (camera / mode state machine, event dispatch, the frame pipeline, the   *)
(* TextBox overlay geometry) and the scoped acquisition of src/__main__.py *)
(***************************************************************************)
EXTENDS Integers, Sequences, FiniteSets, TLC

VARIABLES
    pc,        \* control point of main() / Game.run() / Game.frame()
    color,     \* Game.color
    running,   \* Game.running
    mode,      \* Game.mode
    heap,      \* the pygame.Vector2 objects, by object identity
    camRef,    \* Game.camera_position (a reference into heap)
    mouseRef,  \* Game.mouse_position (a reference into heap)
    pending,   \* events of pygame.event.get() the for loop has not reached yet
    event,     \* the loop variable `event` of Game.handle_events
    drawn,     \* what the current frame has done so far, in order
    frames,    \* number of frames begun
    inits,     \* calls of pygame.init()
    quits,     \* calls of pygame.quit()
    exc,       \* an exception is propagating / has propagated out of main()
    scen,      \* observer: how far the dispatched events follow Scenario
    drag,      \* observer: the drag gesture in progress
    tb,        \* a TextBox.render call on its own: input, control point, blits
    q,         \* the list pygame.event.get() returned, and what was dispatched
    lastMove,  \* observer: position of the latest MOUSEMOTION event dispatched
    gen        \* a Handlers.handle() generator: its events, control point, yields

vars == <<pc, color, running, mode, heap, camRef, mouseRef, pending, event,
          drawn, frames, inits, quits, exc, scen, drag, tb, q, lastMove, gen>>

gameVars == <<color, running, mode, heap, camRef, mouseRef>>

-----------------------------------------------------------------------------
(* Bounds of the model *)

MaxFrames == 2
MaxBatch == 2
MaxLines == 3

-----------------------------------------------------------------------------
(* Program constants *)

BLOCK_SIZE == 8
CHUNK_SIZE == BLOCK_SIZE * 8
SCREEN_W == 1280
SCREEN_H == 780
COLOR_MAX == 160
PADDING_X == 15
PADDING_Y == 5

-----------------------------------------------------------------------------
(* Vectors: pygame.Vector2 values with integral coordinates *)

VAdd(a, b) == <<a[1] + b[1], a[2] + b[2]>>
VSub(a, b) == <<a[1] - b[1], a[2] - b[2]>>
Origin == <<0, 0>>

\* Object identities.  ZeroRef is the class attribute Game.ZERO.
ObjIds == 0 .. 2
ZeroRef == 0

\* The identity a newly constructed vector gets: one that no reference in
\* `live' holds (an unreferenced object is freed and its identity reused).
NewObj(live) == CHOOSE i \in ObjIds \ live : \A j \in ObjIds \ live : i <= j

Cam == heap[camRef]
Mouse == heap[mouseRef]

-----------------------------------------------------------------------------
(* Inputs *)

Positions == {<<100, 100>>, <<120, 95>>, <<130, 110>>}
Buttons == {"BUTTON_LEFT", "BUTTON_MIDDLE", "BUTTON_RIGHT", "BUTTON_X1"}
Keys == {"K_ESCAPE", "K_a"}

Ev(t, k, b, p) == [type |-> t, key |-> k, button |-> b, pos |-> p]
NoEvent == Ev("NOEVENT", "-", "-", Origin)

Events ==
    {Ev("QUIT", "-", "-", Origin), Ev("KEYUP", "K_a", "-", Origin)}
    \cup {Ev("KEYDOWN", k, "-", Origin) : k \in Keys}
    \cup {Ev("MOUSEBUTTONDOWN", "-", b, p) : b \in Buttons, p \in Positions}
    \cup {Ev("MOUSEBUTTONUP", "-", b, p) : b \in Buttons, p \in Positions}
    \cup {Ev("MOUSEMOTION", "-", "-", p) : p \in Positions}

\* variant: randint(0, 255) in place of randint(0, COLOR_MAX)
get_color_255 == {<<r, g, b>> : r \in {0, 255}, g \in {0, 255}, b \in {0, 255}}

\* random.randint(0, COLOR_MAX), sampled at both ends of its range
Channel == {0, COLOR_MAX}
get_color == {<<r, g, b>> : r \in Channel, g \in Channel, b \in Channel}

-----------------------------------------------------------------------------
(* TextBox *)

\* What font.render may return for a line: a surface of some width and height
Glyphs == {[w |-> w, h |-> h] : w \in {8, 16}, h \in {15, 17}}

\* the rasterized lines of _get_foreground, for n lines of text
Foregrounds(n) == [1 .. n -> Glyphs]

MaxOf(S) == CHOOSE m \in S : \A k \in S : k <= m

RECURSIVE SumHeights(_)
SumHeights(fg) == IF fg = <<>> THEN 0 ELSE fg[1].h + SumHeights(Tail(fg))

\* TextBox._get_background: the size of the panel surface
get_background(x, y) == <<PADDING_X * 2 + x, PADDING_Y * 2 + y>>

\* TextBox.render: the blits it makes, the panel first, or the IndexError of
\* fg[0] when there is no line
TextBoxRender(fg, position) ==
    IF fg = <<>>
    THEN [fault |-> TRUE, blits |-> <<>>]
    ELSE LET lh == fg[1].h
             bg == get_background(MaxOf({fg[i].w : i \in 1 .. Len(fg)}),
                                  lh * Len(fg))
             x == PADDING_X + position[1]
             y == PADDING_Y + position[2]
         IN [fault |-> FALSE,
             blits |-> <<[size |-> bg, at |-> position]>> \o
                       [a \in 1 .. Len(fg) |->
                          [size |-> <<fg[a].w, fg[a].h>>,
                           at |-> <<x, lh * (a - 1) + y>>]]]

AlertPosition == <<10, 80>>
DebugPosition == <<10, 10>>

TbIdle == [pc |-> "idle", fg |-> <<>>, position |-> Origin, blits |-> <<>>]

QIdle == [batch |-> <<>>, handled |-> <<>>]

GenIdle == [pc |-> "idle", batch |-> <<>>, yielded |-> <<>>]

-----------------------------------------------------------------------------
(* Game.__init__ *)

GameInit ==
    /\ color \in get_color
    /\ running = FALSE
    /\ mode = "NONE"
    /\ camRef = NewObj({ZeroRef})
    /\ mouseRef = NewObj({ZeroRef, camRef})
    /\ heap = [i \in ObjIds |-> Origin]

Init ==
    /\ GameInit
    /\ pc = "enter"
    /\ pending = 0
    /\ event = NoEvent
    /\ drawn = <<>>
    /\ frames = 0
    /\ inits = 0
    /\ quits = 0
    /\ exc = FALSE
    /\ scen = 0
    /\ drag = [phase |-> "idle", base |-> Origin, sum |-> Origin,
               prev |-> Origin, from |-> Origin]
    /\ tb = TbIdle
    /\ q = QIdle
    /\ lastMove = Origin
    /\ gen = GenIdle

-----------------------------------------------------------------------------
(* Event handlers of Game.  Each is the handler's whole effect on the game *)
(* state, as an action over gameVars.                                       *)

\* variant: `case (Mode.NONE, pygame.K_ESCAPE)`, escape ignored while Dragging
handle_keydown_idle_only(e) ==
    IF mode = "NONE" /\ e.key = "K_ESCAPE"
    THEN /\ running' = FALSE
         /\ UNCHANGED <<color, mode, heap, camRef, mouseRef>>
    ELSE UNCHANGED gameVars

\* variant: `case _` in place of `case pygame.K_ESCAPE`, any key stops
handle_keydown_any_key(e) ==
    /\ running' = FALSE
    /\ UNCHANGED <<color, mode, heap, camRef, mouseRef>>

handle_keydown(e) ==
    IF e.key = "K_ESCAPE"
    THEN /\ running' = FALSE
         /\ UNCHANGED <<color, mode, heap, camRef, mouseRef>>
    ELSE UNCHANGED gameVars

\* variant: `self.running = not self.running`, a second request resumes
handle_quit_toggle(e) ==
    /\ running' = ~running
    /\ UNCHANGED <<color, mode, heap, camRef, mouseRef>>

handle_quit(e) ==
    /\ running' = FALSE
    /\ UNCHANGED <<color, mode, heap, camRef, mouseRef>>

\* variant: `self.camera_position = self.ZERO`, without the copy
Recenter_alias ==
    /\ camRef' = ZeroRef
    /\ UNCHANGED heap

\* variant: the copy is taken of mouse_position instead of ZERO
Recenter_from_mouse ==
    LET c == NewObj({ZeroRef, mouseRef})
    IN /\ camRef' = c
       /\ heap' = [heap EXCEPT ![c] = heap[mouseRef]]

\* self.camera_position = self.ZERO.copy()
Recenter ==
    LET c == NewObj({ZeroRef, mouseRef})
    IN /\ camRef' = c
       /\ heap' = [heap EXCEPT ![c] = heap[ZeroRef]]

\* variant: the middle press also does `self.mouse_position = Vector2(event.pos)`
handle_mousebuttondown_records_press(e) ==
    CASE mode = "NONE" /\ e.button = "BUTTON_LEFT" ->
            /\ color' \in get_color
            /\ UNCHANGED <<running, mode, heap, camRef, mouseRef>>
      [] mode = "NONE" /\ e.button = "BUTTON_RIGHT" ->
            /\ Recenter
            /\ UNCHANGED <<color, running, mode, mouseRef>>
      [] mode = "NONE" /\ e.button = "BUTTON_MIDDLE" ->
            LET position == NewObj({ZeroRef, camRef})
            IN /\ mode' = "DRAG"
               /\ heap' = [heap EXCEPT ![position] = e.pos]
               /\ mouseRef' = position
               /\ UNCHANGED <<color, running, camRef>>
      [] OTHER -> UNCHANGED gameVars

\* variant: `case (_, pygame.BUTTON_RIGHT)`, the recenter matched in any mode
handle_mousebuttondown_any_mode(e) ==
    CASE mode = "NONE" /\ e.button = "BUTTON_LEFT" ->
            /\ color' \in get_color
            /\ UNCHANGED <<running, mode, heap, camRef, mouseRef>>
      [] e.button = "BUTTON_RIGHT" ->
            /\ Recenter
            /\ UNCHANGED <<color, running, mode, mouseRef>>
      [] mode = "NONE" /\ e.button = "BUTTON_MIDDLE" ->
            /\ mode' = "DRAG"
            /\ UNCHANGED <<color, running, heap, camRef, mouseRef>>
      [] OTHER -> UNCHANGED gameVars

handle_mousebuttondown(e) ==
    CASE mode = "NONE" /\ e.button = "BUTTON_LEFT" ->
            /\ color' \in get_color
            /\ UNCHANGED <<running, mode, heap, camRef, mouseRef>>
      [] mode = "NONE" /\ e.button = "BUTTON_RIGHT" ->
            /\ Recenter
            /\ UNCHANGED <<color, running, mode, mouseRef>>
      [] mode = "NONE" /\ e.button = "BUTTON_MIDDLE" ->
            /\ mode' = "DRAG"
            /\ UNCHANGED <<color, running, heap, camRef, mouseRef>>
      [] OTHER -> UNCHANGED gameVars

\* variant: `case (Mode.DRAG, _)`, any button's release ends the drag
handle_mousebuttonup_any_button(e) ==
    IF mode = "DRAG"
    THEN /\ mode' = "NONE"
         /\ UNCHANGED <<color, running, heap, camRef, mouseRef>>
    ELSE UNCHANGED gameVars

handle_mousebuttonup(e) ==
    IF mode = "DRAG" /\ e.button = "BUTTON_MIDDLE"
    THEN /\ mode' = "NONE"
         /\ UNCHANGED <<color, running, heap, camRef, mouseRef>>
    ELSE UNCHANGED gameVars

\* variant: the camera follows the mouse in every mode (no match on the mode)
handle_mousemotion_any_mode(e) ==
    LET position == NewObj({ZeroRef, camRef})
        moved == [heap EXCEPT ![camRef] = VAdd(@, VSub(e.pos, Mouse))]
    IN /\ heap' = [moved EXCEPT ![position] = e.pos]
       /\ mouseRef' = position
       /\ UNCHANGED <<color, running, mode, camRef>>

\* position = Vector2(event.pos); in DRAG mode camera_position is updated in
\* place by position - mouse_position; then mouse_position = position.
handle_mousemotion(e) ==
    LET position == NewObj({ZeroRef, camRef})
        moved == IF mode = "DRAG"
                 THEN [heap EXCEPT ![camRef] = VAdd(@, VSub(e.pos, Mouse))]
                 ELSE heap
    IN /\ heap' = [moved EXCEPT ![position] = e.pos]
       /\ mouseRef' = position
       /\ UNCHANGED <<color, running, mode, camRef>>

handle_event(e) ==
    CASE e.type = "KEYDOWN" -> handle_keydown(e)
      [] e.type = "QUIT" -> handle_quit(e)
      [] e.type = "MOUSEBUTTONDOWN" -> handle_mousebuttondown(e)
      [] e.type = "MOUSEBUTTONUP" -> handle_mousebuttonup(e)
      [] e.type = "MOUSEMOTION" -> handle_mousemotion(e)
      [] OTHER -> UNCHANGED gameVars

-----------------------------------------------------------------------------
(* Observers.  They read the dispatched events and the game state and      *)
(* never influence the program.                                            *)

Scenario == <<Ev("MOUSEBUTTONDOWN", "-", "BUTTON_MIDDLE", <<100, 100>>),
              Ev("MOUSEMOTION", "-", "-", <<120, 95>>),
              Ev("MOUSEMOTION", "-", "-", <<130, 110>>),
              Ev("MOUSEBUTTONUP", "-", "BUTTON_MIDDLE", Origin)>>

ScenOff == Len(Scenario) + 1

\* the release of the scenario may happen at any position
ScenMatches(k, e) ==
    /\ e.type = Scenario[k].type
    /\ e.button = Scenario[k].button
    /\ e.type # "MOUSEBUTTONUP" => e.pos = Scenario[k].pos

ObserveScen(e) ==
    scen' = IF scen < Len(Scenario) /\ ScenMatches(scen + 1, e)
            THEN scen + 1 ELSE ScenOff

DragIdle == [phase |-> "idle", base |-> Origin, sum |-> Origin,
             prev |-> Origin, from |-> Origin]

\* A gesture: a middle press while Idle, then only mouse moves, then the
\* middle release.  base is CameraOffset at the press, from is
\* LastMousePosition at the press, prev the position of the gesture's last
\* event, sum the sum of pos_i - pos_(i-1) with pos_0 the press position.
ObserveDrag(e) ==
    drag' =
      CASE e.type = "MOUSEBUTTONDOWN" /\ e.button = "BUTTON_MIDDLE"
                /\ mode = "NONE" ->
              [phase |-> "dragging", base |-> Cam, sum |-> Origin,
               prev |-> e.pos, from |-> Mouse]
        [] e.type = "MOUSEMOTION" /\ drag.phase = "dragging" ->
              [drag EXCEPT !.sum = VAdd(@, VSub(e.pos, drag.prev)),
                           !.prev = e.pos]
        [] e.type = "MOUSEBUTTONUP" /\ e.button = "BUTTON_MIDDLE"
                /\ drag.phase = "dragging" ->
              [drag EXCEPT !.phase = "ended"]
        [] OTHER -> DragIdle

ObserveMove(e) ==
    lastMove' = IF e.type = "MOUSEMOTION" THEN e.pos ELSE lastMove

-----------------------------------------------------------------------------
(* Rendering *)

\* variant: the sprite's corner, not its centre, put at the window centre
ChunkPos_corner == <<Cam[1] + SCREEN_W \div 2, Cam[2] + SCREEN_H \div 2>>

\* Chunk.render: where the sprite is blitted (rect.centerx is SCREEN_W // 2)
ChunkPos ==
    <<Cam[1] + SCREEN_W \div 2 - CHUNK_SIZE \div 2,
      Cam[2] + SCREEN_H \div 2 - CHUNK_SIZE \div 2>>

\* variant: AlertTextBox without its __iter__, left with the one of TextBox
AlertLines_inherited == <<>>

AlertLines == <<"Try your mouse buttons!">>

ModeStr == IF mode = "NONE" THEN "Mode.NONE" ELSE "Mode.DRAG"

DebugLines == <<<<"Camera position: ", Cam>>,
                <<"Mouse position: ", Mouse>>,
                <<"Event mode: ", ModeStr>>>>

-----------------------------------------------------------------------------
(* Game.frame: its calls, in order *)

\* variant: the surface is cleared before the events are handled
frame_fill_first == <<"fill", "handle_events", "chunk.render", "alert.render",
                      "debug.render", "flip", "tick">>

frame == <<"handle_events", "fill", "chunk.render", "alert.render",
           "debug.render", "flip", "tick">>

FramePcs == {frame[i] : i \in 1 .. Len(frame)} \cup {"for", "handle_event"}

\* the control points at which the frame is inside a call into pygame
RaisePcs == {frame[i] : i \in 1 .. Len(frame)}

\* where control goes after the frame's call named p
NextPc(p) ==
    LET i == CHOOSE k \in 1 .. Len(frame) : frame[k] = p
    IN IF i = Len(frame) THEN "loop" ELSE frame[i + 1]

Log(op, val) == drawn' = Append(drawn, [op |-> op, val |-> val])

\* variant: `game = Game().__enter__(); game.run(); game.__exit__()`, where an
\* exception skips __exit__
WithLeave_no_finally(raised) == IF raised THEN "done" ELSE "exit"

\* `with Game() as game: game.run()`: where control goes when the body of the
\* with statement is left, normally or by an exception
WithLeave(raised) == "exit"

obsVars == <<scen, drag, tb, q, lastMove, gen>>
resVars == <<inits, quits>>

\* Game.__enter__ (pygame.init, the window, the overlays, the chunk)
Enter ==
    /\ pc = "enter"
    /\ inits' = inits + 1
    /\ pc' = "run"
    /\ UNCHANGED <<gameVars, pending, event, drawn, frames, quits, exc, obsVars>>

\* pygame.display.set_mode fails in __enter__: the with body is never entered
EnterFail ==
    /\ pc = "enter"
    /\ inits' = inits + 1
    /\ exc' = TRUE
    /\ pc' = "done"
    /\ UNCHANGED <<gameVars, pending, event, drawn, frames, quits, obsVars>>

\* Game.run: self.running = True
RunStart ==
    /\ pc = "run"
    /\ running' = TRUE
    /\ pc' = "loop"
    /\ UNCHANGED <<color, mode, heap, camRef, mouseRef, pending, event, drawn,
                   frames, resVars, exc, obsVars>>

\* Game.run: while self.running: self.frame()
LoopTest ==
    /\ pc = "loop"
    /\ \/ /\ running
          /\ frames < MaxFrames
          /\ frames' = frames + 1
          /\ drawn' = <<>>
          /\ pc' = frame[1]
       \/ /\ ~running
          /\ pc' = WithLeave(FALSE)
          /\ UNCHANGED <<frames, drawn>>
    /\ UNCHANGED <<gameVars, pending, event, resVars, exc, obsVars>>

\* Game.handle_events: pygame.event.get() returns the pending events
PollEvents ==
    /\ pc = "handle_events"
    /\ pending' \in 0 .. MaxBatch
    /\ pc' = "for"
    /\ UNCHANGED <<gameVars, event, drawn, frames, resVars, exc, obsVars>>

\* the for loop binds `event` to the next event of the list
ForNext ==
    /\ pc = "for"
    /\ pending > 0
    /\ event' \in Events
    /\ pending' = pending - 1
    /\ pc' = "handle_event"
    /\ UNCHANGED <<gameVars, drawn, frames, resVars, exc, obsVars>>

\* variant: `if not self.running: break` at the head of the loop body
ForEnd_break_when_stopped ==
    /\ pc = "for"
    /\ (pending = 0 \/ ~running)
    /\ Log("handle_events", frames)
    /\ event' = NoEvent
    /\ pending' = 0
    /\ pc' = NextPc("handle_events")
    /\ UNCHANGED <<gameVars, frames, resVars, exc, obsVars>>

\* the list is exhausted: handle_events returns (and its local `event` dies)
ForEnd ==
    /\ pc = "for"
    /\ pending = 0
    /\ Log("handle_events", frames)
    /\ event' = NoEvent
    /\ pc' = NextPc("handle_events")
    /\ UNCHANGED <<gameVars, pending, frames, resVars, exc, obsVars>>

\* self.handle_event(event); `event` stays bound until the loop rebinds it
Dispatch ==
    /\ pc = "handle_event"
    /\ handle_event(event)
    /\ ObserveScen(event)
    /\ ObserveDrag(event)
    /\ ObserveMove(event)
    /\ pc' = "for"
    /\ UNCHANGED <<pending, event, drawn, frames, resVars, exc, tb, q, gen>>

\* self.surface.fill(self.color)
Fill ==
    /\ pc = "fill"
    /\ Log("fill", color)
    /\ pc' = NextPc("fill")
    /\ UNCHANGED <<gameVars, pending, event, frames, resVars, exc, obsVars>>

ChunkRender ==
    /\ pc = "chunk.render"
    /\ Log("chunk.render", ChunkPos)
    /\ pc' = NextPc("chunk.render")
    /\ UNCHANGED <<gameVars, pending, event, frames, resVars, exc, obsVars>>

\* an overlay's render() inside the frame: the lines are rasterized and
\* blitted, or render() raises and the exception leaves the with body
OverlayRender(name, lines, position) ==
    /\ pc = name
    /\ \E fg \in Foregrounds(Len(lines)) :
          IF TextBoxRender(fg, position).fault
          THEN /\ exc' = TRUE
               /\ pc' = WithLeave(TRUE)
               /\ Log("IndexError", lines)
          ELSE /\ Log(name, lines)
               /\ pc' = NextPc(name)
               /\ UNCHANGED exc
    /\ UNCHANGED <<gameVars, pending, event, frames, resVars, obsVars>>

AlertRender == OverlayRender("alert.render", AlertLines, AlertPosition)

DebugRender == OverlayRender("debug.render", DebugLines, DebugPosition)

\* pygame.display.flip()
Flip ==
    /\ pc = "flip"
    /\ Log("flip", frames)
    /\ pc' = NextPc("flip")
    /\ UNCHANGED <<gameVars, pending, event, frames, resVars, exc, obsVars>>

\* self.clock.tick(self.FRAMERATE)
Tick ==
    /\ pc = "tick"
    /\ Log("tick", frames)
    /\ pc' = NextPc("tick")
    /\ UNCHANGED <<gameVars, pending, event, frames, resVars, exc, obsVars>>

\* a pygame call made by the frame raises (pygame.error): the exception
\* unwinds frame() and run() and leaves the with body.  The handlers of
\* handle_event make no call that can fail.
Raise ==
    /\ pc \in RaisePcs
    /\ exc' = TRUE
    /\ pending' = 0
    /\ event' = NoEvent
    /\ pc' = WithLeave(TRUE)
    /\ UNCHANGED <<gameVars, drawn, frames, resVars, obsVars>>

\* Game.__exit__: pygame.quit(); it returns None, so an exception propagates
Exit ==
    /\ pc = "exit"
    /\ quits' = quits + 1
    /\ pc' = "done"
    /\ UNCHANGED <<gameVars, pending, event, drawn, frames, inits, exc, obsVars>>

Next ==
    \/ Enter \/ EnterFail \/ RunStart \/ LoopTest
    \/ PollEvents \/ ForNext \/ ForEnd \/ Dispatch
    \/ Fill \/ ChunkRender \/ AlertRender \/ DebugRender \/ Flip \/ Tick
    \/ Raise \/ Exit

Spec == Init /\ [][Next]_vars

-----------------------------------------------------------------------------
(* TextBox.render on its own, for any rasterized lines *)

InitOverlay ==
    /\ GameInit
    /\ pc = "enter"
    /\ pending = 0
    /\ event = NoEvent
    /\ drawn = <<>>
    /\ frames = 0
    /\ inits = 0
    /\ quits = 0
    /\ exc = FALSE
    /\ scen = 0
    /\ drag = DragIdle
    /\ q = QIdle
    /\ lastMove = Origin
    /\ gen = GenIdle
    /\ \E n \in 0 .. MaxLines :
         \E fg \in Foregrounds(n), position \in {AlertPosition, DebugPosition} :
            tb = [pc |-> "render", fg |-> fg, position |-> position,
                  blits |-> <<>>]

TbRender ==
    /\ tb.pc = "render"
    /\ LET r == TextBoxRender(tb.fg, tb.position)
       IN tb' = [tb EXCEPT !.pc = IF r.fault THEN "IndexError" ELSE "rendered",
                           !.blits = r.blits]
    /\ UNCHANGED <<gameVars, pc, pending, event, drawn, frames, resVars, exc,
                   scen, drag, q, lastMove, gen>>

NextOverlay == TbRender

SpecOverlay == InitOverlay /\ [][NextOverlay]_vars

-----------------------------------------------------------------------------
(* The event loop with the list of pygame.event.get() kept whole: the list  *)
(* is fixed when get() returns and the for loop walks it.                   *)

BatchEvents ==
    {Ev("QUIT", "-", "-", Origin), Ev("KEYUP", "K_a", "-", Origin),
     Ev("KEYDOWN", "K_ESCAPE", "-", Origin),
     Ev("MOUSEBUTTONDOWN", "-", "BUTTON_LEFT", <<100, 100>>),
     Ev("MOUSEBUTTONDOWN", "-", "BUTTON_MIDDLE", <<100, 100>>),
     Ev("MOUSEBUTTONUP", "-", "BUTTON_MIDDLE", <<100, 100>>),
     Ev("MOUSEMOTION", "-", "-", <<120, 95>>)}

Batches == UNION {[1 .. n -> BatchEvents] : n \in 0 .. MaxBatch}

\* pygame.event.get() returns the pending events, emptying the queue
PollList ==
    /\ pc = "handle_events"
    /\ \E b \in Batches :
          /\ q' = [batch |-> b, handled |-> <<>>]
          /\ pending' = Len(b)
    /\ pc' = "for"
    /\ UNCHANGED <<gameVars, event, drawn, frames, resVars, exc, scen, drag,
                   tb, lastMove, gen>>

\* the for loop binds `event` to the next element of the list
ForNextList ==
    /\ pc = "for"
    /\ pending > 0
    /\ event' = q.batch[Len(q.batch) - pending + 1]
    /\ pending' = pending - 1
    /\ pc' = "handle_event"
    /\ UNCHANGED <<gameVars, drawn, frames, resVars, exc, obsVars>>

\* self.handle_event(event), the dispatched event noted
DispatchList ==
    /\ pc = "handle_event"
    /\ handle_event(event)
    /\ ObserveScen(event)
    /\ ObserveDrag(event)
    /\ ObserveMove(event)
    /\ q' = [q EXCEPT !.handled = Append(@, event)]
    /\ pc' = "for"
    /\ UNCHANGED <<pending, event, drawn, frames, resVars, exc, tb, gen>>

NextBatch ==
    \/ Enter \/ EnterFail \/ RunStart \/ LoopTest
    \/ PollList \/ ForNextList \/ ForEnd \/ DispatchList
    \/ Fill \/ ChunkRender \/ AlertRender \/ DebugRender \/ Flip \/ Tick
    \/ Raise \/ Exit

SpecBatch == Init /\ [][NextBatch]_vars

-----------------------------------------------------------------------------
(* src/events.py: the Handlers class, whose handlers return whether the     *)
(* loop is to go on, and whose handle() is a generator over the events.     *)

Handlers_handle_keydown(e) ==
    CASE e.key = "K_ESCAPE" -> FALSE
      [] OTHER -> TRUE

Handlers_handle_event(e) ==
    CASE e.type = "KEYDOWN" -> Handlers_handle_keydown(e)
      [] e.type = "QUIT" -> FALSE
      [] OTHER -> TRUE

GenBatches == UNION {[1 .. n -> Events] : n \in 0 .. MaxBatch}

InitHandlers ==
    /\ GameInit
    /\ pc = "enter"
    /\ pending = 0
    /\ event = NoEvent
    /\ drawn = <<>>
    /\ frames = 0
    /\ inits = 0
    /\ quits = 0
    /\ exc = FALSE
    /\ scen = 0
    /\ drag = DragIdle
    /\ tb = TbIdle
    /\ q = QIdle
    /\ lastMove = Origin
    /\ \E b \in GenBatches : gen = [pc |-> "handle", batch |-> b, yielded |-> <<>>]

genRest == <<gameVars, pc, pending, event, drawn, frames, resVars, exc, scen,
           drag, tb, q, lastMove>>

\* the first next() on the generator evaluates pygame.event.get_events().
\* pygame.event offers get(), poll(), wait(), peek(): whether the installed
\* library has an attribute get_events is outside the program, and the
\* lookup either gives the pending events or raises AttributeError.
HandleGet ==
    /\ gen.pc = "handle"
    /\ \/ gen' = [gen EXCEPT !.pc = "for"]
       \/ gen' = [gen EXCEPT !.pc = "AttributeError"]
    /\ UNCHANGED genRest

\* yield self.handle_event(event), for the next event of the list
HandleYield ==
    /\ gen.pc = "for"
    /\ Len(gen.yielded) < Len(gen.batch)
    /\ gen' = [gen EXCEPT !.yielded =
                Append(@, Handlers_handle_event(gen.batch[Len(gen.yielded) + 1]))]
    /\ UNCHANGED genRest

\* the list is exhausted: the generator returns
HandleReturn ==
    /\ gen.pc = "for"
    /\ Len(gen.yielded) = Len(gen.batch)
    /\ gen' = [gen EXCEPT !.pc = "StopIteration"]
    /\ UNCHANGED genRest

NextHandlers == HandleGet \/ HandleYield \/ HandleReturn

SpecHandlers == InitHandlers /\ [][NextHandlers]_vars

-----------------------------------------------------------------------------
(* Properties *)

\* the step in which handle_event(event) runs
HandleStep == pc = "handle_event" /\ pc' = "for"

IsPress(e, b) == e.type = "MOUSEBUTTONDOWN" /\ e.button = b
IsRelease(e, b) == e.type = "MOUSEBUTTONUP" /\ e.button = b
IsStop(e) == e.type = "QUIT" \/ (e.type = "KEYDOWN" /\ e.key = "K_ESCAPE")

\* C1: after a gesture middle press (while Idle), N mouse moves at
\* pos_1..pos_N, middle release, CameraOffset equals its value at the press
\* plus the sum of pos_i - pos_(i-1), pos_0 being the position of the press.
C1_DragIsSumOfDeltas ==
    drag.phase = "ended" => Cam = VAdd(drag.base, drag.sum)

\* What the code does instead: the first delta is measured from
\* LastMousePosition at the press, so the gesture moves the camera by the
\* claimed sum plus (press position - LastMousePosition at the press).
DragFromLastMousePosition ==
    drag.phase = "ended" => Cam = VAdd(drag.base, VSub(Mouse, drag.from))

\* C2: from a fresh Game, the events [middle press at (100,100), move to
\* (120,95), move to (130,110), middle release] give Idle -> Dragging on the
\* press, Offset (20,-5) after the first move, (30,10) after the second, and
\* Idle with Offset (30,10) after the release.
C2_Scenario ==
    /\ scen = 0 => (mode = "NONE" /\ Cam = Origin)
    /\ scen = 1 => (mode = "DRAG" /\ Cam = Origin)
    /\ scen = 2 => (mode = "DRAG" /\ Cam = <<20, -5>>)
    /\ scen = 3 => (mode = "DRAG" /\ Cam = <<30, 10>>)
    /\ scen = 4 => (mode = "NONE" /\ Cam = <<30, 10>>)

\* What the code computes on that scenario.
ScenarioAsCoded ==
    /\ scen = 2 => Cam = <<120, 95>>
    /\ scen \in {3, 4} => Cam = <<130, 110>>

\* C3 as stated: every right-button press sets CameraOffset to (0,0).
C3_RightPressAlwaysRecenters ==
    [][(HandleStep /\ IsPress(event, "BUTTON_RIGHT")) => Cam' = Origin]_vars

\* C3 amended: a right-button press handled while Idle sets CameraOffset to
\* exactly (0,0) whatever came before; handled while Dragging it leaves
\* CameraOffset as it is.
C3_RecenterWhileIdle ==
    [][(HandleStep /\ IsPress(event, "BUTTON_RIGHT")) =>
          /\ mode = "NONE" => Cam' = Origin
          /\ mode = "DRAG" => Cam' = Cam]_vars

\* a recenter has just been handled, after a drag that had moved the camera
\* in the same run (the mouse has moved, the second frame is under way)
C3_Witness ==
    /\ pc = "for" /\ IsPress(event, "BUTTON_RIGHT")
    /\ mode = "NONE" /\ Cam = Origin /\ Mouse # Origin
    /\ frames = 2 /\ pending = 0

\* C4: a mouse move at pos always leaves LastMousePosition = pos; outside
\* Dragging it changes nothing else (CameraOffset, Mode, BackgroundColor,
\* RunningFlag).
C4_MoveOutsideDrag ==
    [][(HandleStep /\ event.type = "MOUSEMOTION") =>
          /\ Mouse' = event.pos
          /\ mode # "DRAG" =>
                /\ Cam' = Cam
                /\ mode' = mode
                /\ color' = color
                /\ running' = running]_vars

\* a move has just been handled while Idle, the camera staying where an
\* earlier drag left it
C4_Witness ==
    /\ pc = "for" /\ event.type = "MOUSEMOTION"
    /\ mode = "NONE" /\ Mouse = event.pos /\ Cam # Origin

\* C5: a left press while Idle sets BackgroundColor to a triple of channels
\* in 0..COLOR_MAX; a left press while Dragging leaves it; nothing else
\* changes it.
C5_ColorOnlyOnIdleLeftPress ==
    [][/\ color' # color =>
            (HandleStep /\ IsPress(event, "BUTTON_LEFT") /\ mode = "NONE")
       /\ (HandleStep /\ IsPress(event, "BUTTON_LEFT")) =>
            /\ mode = "NONE" =>
                 (\A i \in 1 .. 3 : color'[i] \in 0 .. COLOR_MAX)
            /\ mode = "DRAG" => color' = color]_vars

\* a left press has just been handled while Idle and the colour is in range
C5_Witness ==
    /\ pc = "for" /\ IsPress(event, "BUTTON_LEFT") /\ mode = "NONE"
    /\ color = <<COLOR_MAX, 0, COLOR_MAX>>

\* the frame's next control point, when nothing raises
FrameSucc(p) ==
    CASE p = "handle_events" -> {"for"}
      [] p = "for" -> {"handle_event", NextPc("handle_events")}
      [] p = "handle_event" -> {"for"}
      [] OTHER -> {NextPc(p)}

FrameOps == [i \in 1 .. Len(drawn) |-> drawn[i].op]

ClaimedOrder == <<"handle_events", "fill", "chunk.render", "alert.render",
                  "debug.render", "flip", "tick">>

\* C6: an escape key-down or a quit event, in either mode, leaves
\* RunningFlag false; with RunningFlag false the frame under way still goes
\* through each of its remaining calls (nothing cuts it short but an
\* exception), no event sets the flag again, no further frame is begun, and
\* run() returns at the next loop test.
C6_StopWithinOneFrame ==
    [][/\ (HandleStep /\ IsStop(event)) => ~running'
       /\ (~running /\ pc \in FramePcs) =>
            /\ ~running'
            /\ frames' = frames
            /\ exc' \/ pc' \in FrameSucc(pc)
       /\ (~running /\ pc = "loop") => (pc' = "exit" /\ frames' = frames)
       /\ (pc = "exit" /\ ~exc) => (~running /\ FrameOps = ClaimedOrder)]_vars

\* escape or quit arrived in the first frame while Dragging; that frame ran
\* to its end and the program is over without a second frame
C6_Witness ==
    /\ pc = "done" /\ ~exc /\ ~running
    /\ mode = "DRAG" /\ frames = 1 /\ FrameOps = ClaimedOrder

\* C7: Mode is Idle or Dragging, starts Idle, goes Idle -> Dragging exactly
\* on a middle press and Dragging -> Idle exactly on a middle release, and
\* nothing else changes it.
C7_ModeTransitions ==
    /\ mode = "NONE"
    /\ [][/\ mode' \in {"NONE", "DRAG"}
          /\ mode' # mode => HandleStep
          /\ HandleStep =>
               mode' = CASE mode = "NONE" /\ IsPress(event, "BUTTON_MIDDLE")
                              -> "DRAG"
                         [] mode = "DRAG" /\ IsRelease(event, "BUTTON_MIDDLE")
                              -> "NONE"
                         [] OTHER -> mode]_vars

\* a drag gesture has just ended on the middle release
C7_Witness ==
    /\ pc = "for" /\ IsRelease(event, "BUTTON_MIDDLE")
    /\ mode = "NONE" /\ drag.phase = "ended"

\* C8: a frame makes its calls in the order events, clear, chunk, alert
\* overlay, debug overlay, flip, tick, skipping none, and what it cleared
\* with and drew is the state left by the events of that same frame.
C8_FrameOrder ==
    /\ Len(drawn) <= Len(ClaimedOrder)
    /\ \A i \in 1 .. Len(drawn) : drawn[i].op = ClaimedOrder[i]
    /\ (pc \in {"loop", "exit", "done"} /\ frames > 0 /\ ~exc) =>
            FrameOps = ClaimedOrder
    /\ \A i \in 1 .. Len(frame) : pc = frame[i] => Len(drawn) = i - 1
    /\ Len(drawn) >= 2 => drawn[2].val = color
    /\ Len(drawn) >= 3 => drawn[3].val = ChunkPos
    /\ Len(drawn) >= 4 => drawn[4].val = AlertLines
    /\ Len(drawn) >= 5 => drawn[5].val = DebugLines

\* the first frame is complete; its events dragged the camera and the frame
\* drew the sprite and the debug text for the dragged camera
C8_Witness ==
    /\ pc = "loop" /\ frames = 1 /\ FrameOps = ClaimedOrder
    /\ Cam # Origin /\ mode = "DRAG"
    /\ drawn[3].val = VAdd(Cam, <<608, 358>>)

\* C9: the panel TextBox.render blits is as wide as the widest line plus
\* 2*PADDING_X and as high as the sum of the line heights plus 2*PADDING_Y.
C9_PanelSize ==
    tb.pc = "rendered" =>
        tb.blits[1].size =
            <<2 * PADDING_X + MaxOf({tb.fg[i].w : i \in 1 .. Len(tb.fg)}),
              2 * PADDING_Y + SumHeights(tb.fg)>>

\* What the code computes: the height of the first line times the number of
\* lines.
PanelSizeAsCoded ==
    tb.pc = "rendered" =>
        tb.blits[1].size =
            <<2 * PADDING_X + MaxOf({tb.fg[i].w : i \in 1 .. Len(tb.fg)}),
              2 * PADDING_Y + tb.fg[1].h * Len(tb.fg)>>

\* C10: pygame is initialised once; once run() has been entered pygame.quit
\* is called exactly once, when the loop is left, whether RunningFlag went
\* false or an exception came out of frame().
C10_ReleasedOnce ==
    /\ inits <= 1 /\ quits <= 1
    /\ pc \in ({"run", "loop", "exit"} \cup FramePcs) =>
            (inits = 1 /\ quits = 0)
    /\ quits = 1 => (pc = "done" /\ inits = 1)
    /\ (pc = "done" /\ frames > 0) => quits = 1

\* an exception came out of a frame and pygame.quit has run once
C10_Witness ==
    /\ pc = "done" /\ exc /\ frames > 0 /\ running
    /\ inits = 1 /\ quits = 1

\* C11: render() of a TextBox that has no line either blits nothing or
\* rejects the call by its own check; it never ends in the fault of indexing
\* (or taking the max of) an empty sequence.
C11_EmptyLinesGuarded ==
    (tb.fg = <<>> /\ tb.pc # "render") =>
        \/ tb.pc = "rendered" /\ tb.blits = <<>>
        \/ tb.pc = "rejected"

\* What the code does: fg[0] raises IndexError exactly when there is no line.
EmptyLinesAsCoded ==
    tb.pc # "render" => (tb.pc = "IndexError" <=> tb.fg = <<>>)

\* C12: in a frame every event of the list pygame.event.get() returned is
\* dispatched once, in the order of the list, and takes effect at once, also
\* after a quit or escape of the same frame; when handle_events returns the
\* whole list has been dispatched, and the next frame starts from a new list.
C12_BatchDispatchedInOrder ==
    /\ q = QIdle
    /\ [][/\ pc' = "for" =>
               q'.handled = SubSeq(q'.batch, 1, Len(q'.batch) - pending')
          /\ pc' = "handle_event" =>
               /\ q'.handled = SubSeq(q'.batch, 1, Len(q'.batch) - pending' - 1)
               /\ event' = q'.batch[Len(q'.batch) - pending']
          /\ (pc' \notin {"for", "handle_event"} /\ ~exc') =>
               (q'.handled = q'.batch /\ pending' = 0)
          /\ (pc = "handle_events" /\ pc' = "for") =>
               (q'.handled = <<>> /\ pending' = Len(q'.batch))
          /\ (HandleStep /\ ~running) =>
               /\ (IsPress(event, "BUTTON_MIDDLE") /\ mode = "NONE") =>
                      mode' = "DRAG"
               /\ (IsPress(event, "BUTTON_LEFT") /\ mode = "NONE") =>
                      color' \in get_color
               /\ event.type = "MOUSEMOTION" => Mouse' = event.pos]_vars

\* a frame whose list was [stop event, middle press]: both were dispatched,
\* the press after the stop took effect, and the events are over
C12_Witness ==
    /\ pc = "fill" /\ ~running /\ mode = "DRAG"
    /\ Len(q.batch) = 2 /\ IsStop(q.batch[1])
    /\ IsPress(q.batch[2], "BUTTON_MIDDLE")
    /\ q.handled = q.batch /\ pending = 0

\* the button presses the transition table documents: left, right and middle
\* while Idle
DocumentedPress(e) ==
    /\ e.type = "MOUSEBUTTONDOWN"
    /\ mode = "NONE"
    /\ e.button \in {"BUTTON_LEFT", "BUTTON_RIGHT", "BUTTON_MIDDLE"}

\* C13: a right press handled while Dragging leaves CameraOffset as it is,
\* and every button press other than the documented Idle cases leaves
\* CameraOffset, BackgroundColor, Mode, LastMousePosition and RunningFlag
\* unchanged.
C13_OtherPressesChangeNothing ==
    [][(HandleStep /\ event.type = "MOUSEBUTTONDOWN") =>
          /\ (mode = "DRAG" /\ event.button = "BUTTON_RIGHT") => Cam' = Cam
          /\ ~DocumentedPress(event) =>
                /\ Cam' = Cam /\ Mouse' = Mouse
                /\ color' = color /\ mode' = mode /\ running' = running]_vars

\* a right press has just been handled in the middle of a drag that had
\* moved the camera
C13_Witness ==
    /\ pc = "for" /\ IsPress(event, "BUTTON_RIGHT")
    /\ mode = "DRAG" /\ Cam # Origin

\* the events the program has no case for
Ignored(e) ==
    \/ e.type \notin {"KEYDOWN", "QUIT", "MOUSEBUTTONDOWN", "MOUSEBUTTONUP",
                      "MOUSEMOTION"}
    \/ e.type = "KEYDOWN" /\ e.key # "K_ESCAPE"
    \/ /\ e.type \in {"MOUSEBUTTONDOWN", "MOUSEBUTTONUP"}
       /\ e.button \notin {"BUTTON_LEFT", "BUTTON_RIGHT", "BUTTON_MIDDLE"}

\* C14: an event of an unhandled type, a key-down of a key other than escape
\* and a press or release of an unrecognised button are handled without any
\* change of CameraOffset, LastMousePosition, Mode, BackgroundColor or
\* RunningFlag, and their handling never raises.
C14_IgnoredEventsAreNoOps ==
    [][(pc = "handle_event" /\ Ignored(event)) =>
          /\ pc' = "for" /\ exc' = exc
          /\ UNCHANGED <<heap, camRef, mouseRef, mode, color, running>>]_vars

\* a key-down of another key has just been handled during a drag that had
\* moved the camera, while the game runs
C14_Witness ==
    /\ pc = "for" /\ event.type = "KEYDOWN" /\ Ignored(event)
    /\ mode = "DRAG" /\ Cam # Origin /\ running /\ ~exc

\* C15: Handlers.handle_event returns false exactly for a quit event and for
\* a key-down of escape, and handle() yields one such boolean for each
\* pending event, in the order of the events, and then ends.
C15_HandlersYieldPerEvent ==
    /\ \A i \in 1 .. Len(gen.yielded) : gen.yielded[i] = ~IsStop(gen.batch[i])
    /\ Len(gen.yielded) <= Len(gen.batch)
    /\ gen.pc \notin {"handle", "for"} =>
          (gen.pc = "StopIteration" /\ Len(gen.yielded) = Len(gen.batch))

\* What the code does: the booleans are as claimed whenever the generator
\* gets its list, but the generator can end in AttributeError before its
\* first yield.
HandlersAsCoded ==
    /\ \A i \in 1 .. Len(gen.yielded) : gen.yielded[i] = ~IsStop(gen.batch[i])
    /\ gen.pc = "StopIteration" => Len(gen.yielded) = Len(gen.batch)
    /\ gen.pc = "AttributeError" => gen.yielded = <<>>

\* C16: Chunk.render blits the sprite at CameraOffset + window centre -
\* CHUNK_SIZE/2 in each coordinate, from the CameraOffset of the moment of
\* the call: (608, 358) for the offset (0,0), the 64x64 sprite centred in the
\* 1280x780 window; the call changes no game state.
C16_ChunkPosition ==
    [][(pc = "chunk.render" /\ pc' = "alert.render") =>
          LET blit == drawn'[Len(drawn')]
          IN /\ blit.op = "chunk.render"
             /\ blit.val = <<Cam[1] + 640 - 32, Cam[2] + 390 - 32>>
             /\ Cam = <<0, 0>> => blit.val = <<608, 358>>
             /\ CHUNK_SIZE = 64
             /\ UNCHANGED <<color, running, mode, heap, camRef, mouseRef>>]_vars

\* the second frame has drawn the sprite, for a camera the events had moved
C16_Witness ==
    /\ pc = "alert.render" /\ frames = 2 /\ Cam # Origin
    /\ drawn[3] = [op |-> "chunk.render", val |-> VAdd(Cam, <<608, 358>>)]

\* C17: RunningFlag is false until run() sets it, once, at the start of the
\* loop; after that it only changes from true to false, in the handling of a
\* quit event or an escape key-down, and no handler sets it back, so a stop
\* cannot be undone by later events of the frame; the loop condition ends
\* the loop only when such a stop has cleared the flag.
C17_RunningOnlyFalls ==
    /\ ~running
    /\ [][/\ pc = "run" => (~running /\ running' /\ pc' = "loop")
          /\ pc' = "run" => pc = "enter"
          /\ (pc # "run" /\ running' # running) =>
                (HandleStep /\ IsStop(event) /\ running /\ ~running')
          /\ (HandleStep /\ ~running) => ~running'
          /\ (HandleStep /\ IsStop(event)) => ~running'
          /\ (pc = "loop" /\ pc' # "loop") =>
                IF running THEN pc' = "handle_events" ELSE pc' = "exit"]_vars

\* a stop was handled earlier in this frame, and a later event of the same
\* frame, not a stop, has just been handled: the flag is still false
C17_Witness ==
    /\ pc = "for" /\ ~running /\ ~exc
    /\ event # NoEvent /\ ~IsStop(event) /\ event.type = "KEYDOWN"

\* C18: LastMousePosition is the position of the latest mouse-move event
\* handled, (0,0) before the first; button presses and releases leave it as
\* it is although they carry a position; so a move handled while Dragging
\* shifts the camera by its position minus the last mouse-move position,
\* the first move of a drag included.
C18_LastMousePositionIsLastMove ==
    /\ Mouse = <<0, 0>> /\ lastMove = <<0, 0>>
    /\ [][/\ Mouse' = lastMove'
          /\ (HandleStep /\ event.type \in {"MOUSEBUTTONDOWN", "MOUSEBUTTONUP"})
                => Mouse' = Mouse
          /\ (HandleStep /\ event.type = "MOUSEMOTION" /\ mode = "DRAG")
                => Cam' = VAdd(Cam, VSub(event.pos, lastMove))]_vars

\* a drag whose press was at another place than the last mouse move: after
\* its moves the camera has shifted by the distance from that last move, not
\* by the distance from the press
C18_Witness ==
    /\ pc = "for" /\ event.type = "MOUSEMOTION"
    /\ mode = "DRAG" /\ drag.phase = "dragging"
    /\ drag.from # Origin
    /\ Cam = VAdd(drag.base, VSub(event.pos, drag.from))
    /\ Cam # VAdd(drag.base, drag.sum)

\* Game.ZERO is (0,0), and ZERO, camera_position and mouse_position are three
\* different objects
ZeroIntact ==
    /\ heap[ZeroRef] = <<0, 0>>
    /\ camRef # ZeroRef /\ mouseRef # ZeroRef /\ camRef # mouseRef

\* C19: Game.ZERO stays (0,0) whatever events are handled; CameraOffset and
\* LastMousePosition are always objects other than ZERO and other than each
\* other, so the in-place update of a drag alters neither ZERO nor
\* LastMousePosition, and every recenter gives exactly (0,0).
C19_ZeroNeverAliased ==
    /\ ZeroIntact
    /\ [][/\ ZeroIntact'
          /\ (HandleStep /\ event.type = "MOUSEMOTION" /\ mode = "DRAG") =>
                (heap'[ZeroRef] = heap[ZeroRef] /\ Mouse' = event.pos)
          /\ (HandleStep /\ IsPress(event, "BUTTON_RIGHT") /\ mode = "NONE") =>
                Cam' = <<0, 0>>]_vars

\* a move has just been handled in a drag: the camera was updated in place
\* to a value that is neither ZERO's nor LastMousePosition's
C19_Witness ==
    /\ pc = "for" /\ event.type = "MOUSEMOTION" /\ mode = "DRAG"
    /\ Cam # Origin /\ Cam # Mouse /\ Mouse = event.pos
    /\ heap[ZeroRef] = Origin

\* C20: the overlays Game.frame renders always have lines, one for the alert
\* overlay and three for the debug overlay whatever the camera offset, the
\* mouse position and the mode are, so no frame of Game.run ends in the
\* fault TextBox.render has for an empty line sequence.
C20_GameOverlaysNonEmpty ==
    /\ Len(DebugLines) = 3
    /\ \A i \in 1 .. Len(drawn) :
          /\ drawn[i].op # "IndexError"
          /\ drawn[i].op = "alert.render" => Len(drawn[i].val) = 1
          /\ drawn[i].op = "debug.render" => Len(drawn[i].val) = 3

\* the second frame has rendered both overlays, in the middle of a drag, with
\* the camera and the mouse away from the origin
C20_Witness ==
    /\ pc = "flip" /\ frames = 2 /\ ~exc
    /\ mode = "DRAG" /\ Cam # Origin /\ Mouse # Origin
    /\ drawn[4] = [op |-> "alert.render", val |-> AlertLines]
    /\ drawn[5] = [op |-> "debug.render", val |-> DebugLines]

====
